---- MODULE Spec2Model ----
(***************************************************************************)
(* BlobStorageArea: a JSON document stored in fixed-size slots of a        *)
(* key-value StorageArea, with a metadata record (hash, hashPreCompress,   *)
(* lastUpdated, lastCompressState) under a reserved key.                   *)
(*                                                                         *)
(* Text is modelled at the level of characters and UTF-8 bytes: a string   *)
(* is a sequence of character tokens, a Blob is a sequence of byte tokens. *)
(* An ASCII character is one byte (the same token); "U+00E9" is the        *)
(* two-byte character C3 A9; "U+FFFD" is the replacement character         *)
(* EF BF BD that the UTF-8 decoder emits for an ill-formed sequence.       *)
(***************************************************************************)
EXTENDS Integers, Sequences, FiniteSets, TLC

(***************************************************************************)
(* Configuration and bounds                                                *)
(***************************************************************************)
slotSize == 4
slotCount == 4

keyMeta == "__storage_meta"
keyPrefix == "__storage_stack_"

Instances == {"A", "B"}
Threads == {1, 2}
\* the callers that issue operations: one, which awaits each operation
\* before it issues the next
Callers == {1}
MaxOps == 3
MaxClock == 2

Slots == 0..(slotCount - 1)
SlotKey(i) == keyPrefix \o ToString(i)
SlotKeys == {SlotKey(i) : i \in Slots}
\* keys that are not the engine's: another user's key, and the slot key
\* after the last one
ForeignKeys == {"dummy1", SlotKey(slotCount)}
ReservedKeys == {keyMeta} \cup SlotKeys
BackendKeys == ReservedKeys \cup ForeignKeys

Min(a, b) == IF a < b THEN a ELSE b

(***************************************************************************)
(* UTF-8: TextEncoder (new Blob([string])) and TextDecoder (Blob.text())   *)
(***************************************************************************)
RECURSIVE EncodeUtf8(_)
EncodeUtf8(s) ==
  IF s = <<>> THEN <<>>
  ELSE LET c == Head(s)
           b == IF c = "U+00E9" THEN <<"C3", "A9">>
                ELSE IF c = "U+FFFD" THEN <<"EF", "BF", "BD">>
                ELSE <<c>>
       IN b \o EncodeUtf8(Tail(s))

Drop(s, n) == SubSeq(s, n + 1, Len(s))

RECURSIVE DecodeUtf8(_)
DecodeUtf8(b) ==
  IF b = <<>> THEN <<>>
  ELSE LET h == Head(b) IN
    IF h = "C3"
    THEN IF Len(b) >= 2 /\ b[2] = "A9"
         THEN <<"U+00E9">> \o DecodeUtf8(Drop(b, 2))
         ELSE <<"U+FFFD">> \o DecodeUtf8(Drop(b, 1))
    ELSE IF h = "EF"
    THEN IF Len(b) >= 3 /\ b[2] = "BF" /\ b[3] = "BD"
         THEN <<"U+FFFD">> \o DecodeUtf8(Drop(b, 3))
         ELSE IF Len(b) >= 2 /\ b[2] = "BF"
         THEN <<"U+FFFD">> \o DecodeUtf8(Drop(b, 2))
         ELSE <<"U+FFFD">> \o DecodeUtf8(Drop(b, 1))
    ELSE IF h \in {"A9", "BF", "BD"}
    THEN <<"U+FFFD">> \o DecodeUtf8(Drop(b, 1))
    ELSE <<h>> \o DecodeUtf8(Drop(b, 1))

\* Blob.slice(start, end): byte offsets, end exclusive.
BlobSlice(b, start, end) == SubSeq(b, start + 1, end)

(***************************************************************************)
(* Documents and JSON                                                      *)
(* A document maps key strings to values; a value is identified with its   *)
(* JSON text (a number is its digits, a string is its characters between   *)
(* double quotes).                                                         *)
(***************************************************************************)
KeyOrder == <<"a", "b">>
Keys == {KeyOrder[i] : i \in 1..Len(KeyOrder)}

Num1 == <<"1">>
Num10 == <<"1", "0">>
Num1000 == <<"1", "0", "0", "0">>
StrXE == <<"\"", "x", "U+00E9", "\"">>
Values == {Num1, Num10, Num1000, StrXE}

EmptyDoc == [k \in {} |-> <<>>]
Doc1(k, v) == [x \in {k} |-> v]
Doc2(v, w) == [x \in {"a", "b"} |-> IF x = "a" THEN v ELSE w]

\* { ...a, ...b }
Spread(a, b) ==
  [k \in (DOMAIN a) \cup (DOMAIN b) |-> IF k \in DOMAIN b THEN b[k] ELSE a[k]]

RECURSIVE StringifyMembers(_, _, _)
StringifyMembers(doc, i, first) ==
  IF i > Len(KeyOrder) THEN <<>>
  ELSE LET k == KeyOrder[i] IN
    IF k \in DOMAIN doc
    THEN (IF first THEN <<>> ELSE <<",">>)
           \o <<"\"", k, "\"", ":">> \o doc[k]
           \o StringifyMembers(doc, i + 1, FALSE)
    ELSE StringifyMembers(doc, i + 1, first)

JSONStringify(doc) == <<"{">> \o StringifyMembers(doc, 1, TRUE) \o <<"}">>

Digits == {"0", "1", "2", "3", "4", "5", "6", "7", "8", "9"}

\* least index >= from holding tok, or 0
IndexOf(s, tok, from) ==
  LET I == {i \in from..Len(s) : s[i] = tok}
  IN IF I = {} THEN 0 ELSE CHOOSE i \in I : \A j \in I : i <= j

\* index of the last digit of the digit run starting at from (from - 1 if none)
DigitsEnd(s, from) ==
  LET N == {i \in from..Len(s) : s[i] \notin Digits}
  IN IF N = {} THEN Len(s) ELSE (CHOOSE i \in N : \A j \in N : i <= j) - 1

RECURSIVE JoinKey(_)
JoinKey(s) == IF s = <<>> THEN "" ELSE Head(s) \o JoinKey(Tail(s))

ParseFail == [ok |-> FALSE, doc |-> EmptyDoc]

RECURSIVE ParseMembers(_, _)
ParseMembers(b, acc) ==
  IF Len(b) < 4 \/ b[1] # "\"" THEN ParseFail
  ELSE LET kq == IndexOf(b, "\"", 2) IN
    IF kq = 0 \/ kq + 2 > Len(b) \/ b[kq + 1] # ":" THEN ParseFail
    ELSE LET key == JoinKey(SubSeq(b, 2, kq - 1))
             vs == kq + 2
             ve == IF b[vs] = "\""
                   THEN IndexOf(b, "\"", vs + 1)
                   ELSE IF b[vs] \in Digits /\ ~(b[vs] = "0" /\ DigitsEnd(b, vs) > vs)
                   THEN DigitsEnd(b, vs)
                   ELSE 0
         IN IF ve = 0 THEN ParseFail
            ELSE LET acc2 == Spread(acc, Doc1(key, SubSeq(b, vs, ve))) IN
              IF ve = Len(b) THEN [ok |-> TRUE, doc |-> acc2]
              ELSE IF b[ve + 1] = "," THEN ParseMembers(Drop(b, ve + 1), acc2)
              ELSE ParseFail

JSONParse(s) ==
  IF Len(s) < 2 \/ s[1] # "{" \/ s[Len(s)] # "}" THEN ParseFail
  ELSE IF Len(s) = 2 THEN [ok |-> TRUE, doc |-> EmptyDoc]
  ELSE ParseMembers(SubSeq(s, 2, Len(s) - 1), EmptyDoc)

(***************************************************************************)
(* Codec: md5, deflate + base64, base64 + unzip                            *)
(***************************************************************************)
NullHash == <<>>
calculateHash(data) == <<"md5">> \o data

\* deflate: a header byte, then runs of three equal bytes shortened
RECURSIVE DeflateBody(_)
DeflateBody(b) ==
  IF b = <<>> THEN <<>>
  ELSE IF Len(b) >= 3 /\ b[1] = b[2] /\ b[2] = b[3]
       THEN <<"#3", b[1]>> \o DeflateBody(Drop(b, 3))
       ELSE <<b[1]>> \o DeflateBody(Drop(b, 1))

Deflate(b) == <<"z">> \o DeflateBody(b)

\* base64: every byte becomes ASCII
Base64Char(x) ==
  CASE x = "C3" -> "=C3" [] x = "A9" -> "=A9" [] x = "EF" -> "=EF"
    [] x = "BF" -> "=BF" [] x = "BD" -> "=BD" [] OTHER -> x
Base64Byte(c) ==
  CASE c = "=C3" -> "C3" [] c = "=A9" -> "A9" [] c = "=EF" -> "EF"
    [] c = "=BF" -> "BF" [] c = "=BD" -> "BD" [] OTHER -> c

ToBase64(b) == [i \in 1..Len(b) |-> Base64Char(b[i])]
FromBase64(s) == [i \in 1..Len(s) |-> Base64Byte(s[i])]

InflateFail == [ok |-> FALSE, bytes |-> <<>>]

RECURSIVE InflateBody(_)
InflateBody(b) ==
  IF b = <<>> THEN [ok |-> TRUE, bytes |-> <<>>]
  ELSE IF b[1] = "#3"
       THEN IF Len(b) < 2 THEN InflateFail
            ELSE LET r == InflateBody(Drop(b, 2)) IN
              IF r.ok THEN [ok |-> TRUE, bytes |-> <<b[2], b[2], b[2]>> \o r.bytes]
              ELSE InflateFail
       ELSE LET r == InflateBody(Drop(b, 1)) IN
              IF r.ok THEN [ok |-> TRUE, bytes |-> <<b[1]>> \o r.bytes]
              ELSE InflateFail

Unzip(b) ==
  IF b = <<>> \/ b[1] # "z" THEN InflateFail ELSE InflateBody(Drop(b, 1))

(***************************************************************************)
(* StorageArea backend (DummyStorageArea: a key-value map whose calls take *)
(* effect when they are issued)                                            *)
(***************************************************************************)
LastCompressStates == [Uncomporessed |-> "uncompressed",
                       Compressed |-> "compressed",
                       Failed |-> "failed"]
StorageStates == [Idle |-> "idle",
                  Uploading |-> "uploading",
                  Downloading |-> "downloading"]

NullTime == 0

\* the record the constructor builds
InitialMeta == [hash |-> NullHash,
                hashPreCompress |-> NullHash,
                lastUpdated |-> NullTime,
                lastCompressState |-> LastCompressStates.Uncomporessed]

\* what another user of the backend keeps under a key of its own
ForeignValue == <<"value1">>

AbsentEntry == [kind |-> "absent", meta |-> InitialMeta, text |-> <<>>]
MetaEntry(m) == [kind |-> "meta", meta |-> m, text |-> <<>>]
TextEntry(s) == [kind |-> "text", meta |-> InitialMeta, text |-> s]

StorageSet(st, k, e) == [st EXCEPT ![k] = e]
StorageClear(st) == [k \in DOMAIN st |-> AbsentEntry]

\* the engine clears the whole backend instead of removing its key
StorageRemoveByClear(st, k) == StorageClear(st)

StorageRemove(st, k) == [st EXCEPT ![k] = AbsentEntry]
StorageGet(st, k) == st[k]

\* getBlob: new Blob([value ?? ""])
getBlob(st, index) ==
  LET e == StorageGet(st, SlotKey(index))
  IN EncodeUtf8(IF e.kind = "text" THEN e.text ELSE <<>>)

RECURSIVE ConnectFrom(_, _)
ConnectFrom(st, i) ==
  IF i >= slotCount THEN <<>> ELSE getBlob(st, i) \o ConnectFrom(st, i + 1)

\* the Blob connectedBlobs() builds when no other call intervenes
connectedBlobs(st) == ConnectFrom(st, 0)

getMaxCapacity == slotCount * slotSize

(***************************************************************************)
(* State                                                                   *)
(***************************************************************************)
VARIABLES
  store,            \* backend: key -> entry
  now,              \* last value Date.now() returned
  created,          \* instance -> create() has resolved
  compress,         \* instance -> config.compress
  meta,             \* instance -> in-memory MetaValues
  localData,        \* instance -> local cache (key -> value)
  occupiedStorage,  \* instance -> byte counter
  state,            \* instance -> StorageStates
  pc,               \* thread -> position in the operation in flight
  inst,             \* thread -> instance the operation runs on
  loc,              \* thread -> locals of the operation in flight
  result,           \* thread -> outcome of the last settled operation
  ops,              \* calls made and failures injected so far
  \* history, recorded for the properties only
  written,          \* instance -> merge of the items of its successful sets
  wrote,            \* instance -> it has called set or clear
  clean,            \* instance -> every write it called was a set that resolved
  lastSetBy,        \* instance whose set resolved last, "none" once a set is called
  behind,           \* instances that existed when that set resolved
  overlap,          \* instance -> a set or get was called while another ran
  \* backend whose removals take effect later (SpecAsync only)
  pending           \* keys whose removal was issued and has not taken effect

backendVars == <<store, now>>
instVars == <<created, compress, meta, localData, occupiedStorage, state>>
threadVars == <<pc, inst, loc, result>>
histVars == <<written, wrote, clean, lastSetBy, behind, overlap>>
vars == <<store, now, created, compress, meta, localData, occupiedStorage,
          state, pc, inst, loc, result, ops, histVars, pending>>

Undefined == <<"undefined">>

NoArg == [kind |-> "none", keys |-> {}]
StringArg(k) == [kind |-> "string", keys |-> {k}]
ArrayArg(ks) == [kind |-> "array", keys |-> ks]
GetArgs == {NoArg, StringArg("a"), ArrayArg({"a", "b"})}

SetInputs == {Doc1("b", Num10), Doc1("a", StrXE),
              Doc2(Num1, Num1000), Doc2(Num10, Num1000)}

LocInit == [op |-> "none", items |-> EmptyDoc, arg |-> NoArg, keys |-> {}, iterable |-> TRUE,
            data |-> <<>>, preHash |-> NullHash, index |-> 0,
            blobs |-> <<>>, cont |-> "none"]

NoResult == [op |-> "none", status |-> "none", exceeded |-> 0, size |-> 0,
             value |-> EmptyDoc, flag |-> FALSE]
\* the rejection reasons
Errors == {"TooLargeDataError", "ZippingError", "SyntaxError", "TypeError",
           "BackendError"}

Resolved(op) == [NoResult EXCEPT !.op = op, !.status = "ok"]
Rejected(op, err) == [NoResult EXCEPT !.op = op, !.status = err]

TypeOK ==
  /\ DOMAIN store = BackendKeys
  /\ now \in 1..MaxClock
  /\ created \in [Instances -> BOOLEAN]
  /\ compress \in [Instances -> BOOLEAN]
  /\ \A i \in Instances :
       /\ occupiedStorage[i] \in Nat
       /\ state[i] \in {StorageStates.Idle, StorageStates.Uploading,
                        StorageStates.Downloading}
       /\ meta[i].lastUpdated \in 0..MaxClock
  /\ inst \in [Threads -> Instances]
  /\ ops \in 0..MaxOps
  /\ pending \subseteq SlotKeys

Init ==
  /\ store = [k \in BackendKeys |->
                IF k = "dummy1" THEN TextEntry(ForeignValue)
                ELSE AbsentEntry]
  /\ now = 1
  /\ created = [i \in Instances |-> FALSE]
  /\ \E c \in BOOLEAN : compress = [i \in Instances |-> c]
  /\ meta = [i \in Instances |-> InitialMeta]
  /\ localData = [i \in Instances |-> EmptyDoc]
  /\ occupiedStorage = [i \in Instances |-> 0]
  /\ state = [i \in Instances |-> StorageStates.Idle]
  /\ pc = [t \in Threads |-> "idle"]
  /\ inst = [t \in Threads |-> "A"]
  /\ loc = [t \in Threads |-> LocInit]
  /\ result = [t \in Threads |-> NoResult]
  /\ ops = 0
  /\ written = [i \in Instances |-> EmptyDoc]
  /\ wrote = [i \in Instances |-> FALSE]
  /\ clean = [i \in Instances |-> TRUE]
  /\ lastSetBy = "none"
  /\ behind = {}
  /\ overlap = [i \in Instances |-> FALSE]
  /\ pending = {}

(***************************************************************************)
(* Helpers shared by the steps                                             *)
(***************************************************************************)
InFlight(t, i) == pc[t] # "idle" /\ inst[t] = i

\* a call is taken by the first caller that is free
CanCall(t) == pc[t] = "idle" /\ \A u \in Threads : u < t => pc[u] # "idle"

\* a set or get of instance i is in flight
Busy(i) == \E u \in Threads : InFlight(u, i) /\ loc[u].op \in {"set", "get"}
NoteOverlap(i) == overlap' = [overlap EXCEPT ![i] = Busy(i)]

\* setMeta: this.meta = meta; storage.set({ [keyMeta]: meta })
setMeta(i, m) ==
  /\ meta' = [meta EXCEPT ![i] = m]
  /\ store' = StorageSet(store, keyMeta, MetaEntry(m))

Settle(t, res) ==
  /\ pc' = [pc EXCEPT ![t] = "idle"]
  /\ loc' = [loc EXCEPT ![t] = LocInit]
  /\ result' = [result EXCEPT ![t] = res]

StartRead(t, cont) ==
  /\ pc' = [pc EXCEPT ![t] = "read"]
  /\ loc' = [loc EXCEPT ![t].index = 0, ![t].blobs = <<>>, ![t].cont = cont]

\* values[key] = source.get(key) / json[key]
Pick(source, keys) ==
  [k \in keys |-> IF k \in DOMAIN source THEN source[k] ELSE Undefined]

\* spreading a Blob copies no enumerable string-keyed property
SpreadBlob(blob) == EmptyDoc

\* the capacity check lets one byte too many through
OverOffByOne(size) == size - getMaxCapacity - 1

Over(size) == size - getMaxCapacity

(***************************************************************************)
(* create()                                                                *)
(***************************************************************************)
CreateCall(t, i) ==
  /\ CanCall(t)
  /\ ~created[i]
  /\ \A u \in Threads : ~InFlight(u, i)
  /\ inst' = [inst EXCEPT ![t] = i]
  /\ meta' = [meta EXCEPT ![i] = InitialMeta]
  /\ pc' = [pc EXCEPT ![t] = "init_meta"]
  /\ loc' = [loc EXCEPT ![t] = [LocInit EXCEPT !.op = "create"]]
  /\ UNCHANGED <<store, now, created, compress, localData, occupiedStorage,
                 state, result, ops>>
  /\ UNCHANGED histVars
  /\ UNCHANGED pending

initStorageMeta(t) ==
  /\ pc[t] = "init_meta"
  /\ LET i == inst[t]
         inStorage == StorageGet(store, keyMeta)
     IN IF inStorage.kind # "meta"
        THEN /\ pc' = [pc EXCEPT ![t] = "init_set"]
             /\ UNCHANGED <<meta, loc>>
        ELSE /\ meta' = [meta EXCEPT ![i] = inStorage.meta]
             /\ StartRead(t, "create_done")
  /\ UNCHANGED <<store, now, created, compress, localData, occupiedStorage,
                 state, inst, result, ops>>
  /\ UNCHANGED histVars
  /\ UNCHANGED pending

initSetMeta(t) ==
  /\ pc[t] = "init_set"
  /\ setMeta(inst[t], meta[inst[t]])
  /\ StartRead(t, "create_done")
  /\ UNCHANGED <<now, created, compress, localData, occupiedStorage, state,
                 inst, result, ops>>
  /\ UNCHANGED histVars
  /\ UNCHANGED pending

\* one iteration of connectedBlobs: blobs.push(await this.getBlob(i))
ReadSlot(t) ==
  /\ pc[t] = "read"
  /\ LET i == loc[t].index IN
       /\ loc' = [loc EXCEPT ![t].blobs = @ \o getBlob(store, i),
                             ![t].index = i + 1]
       /\ pc' = [pc EXCEPT ![t] = IF i + 1 < slotCount THEN "read"
                                  ELSE loc[t].cont]
  /\ UNCHANGED <<store, now, created, compress, meta, localData,
                 occupiedStorage, state, inst, result, ops>>
  /\ UNCHANGED histVars
  /\ UNCHANGED pending

\* create() resolves without taking the size of the stored data
CreateDoneKeepsCounter(t) ==
  /\ pc[t] = "create_done"
  /\ created' = [created EXCEPT ![inst[t]] = TRUE]
  /\ Settle(t, Resolved("create"))
  /\ UNCHANGED <<store, now, compress, meta, localData, occupiedStorage,
                 state, inst, ops>>
  /\ UNCHANGED histVars
  /\ UNCHANGED pending

CreateDone(t) ==
  /\ pc[t] = "create_done"
  /\ occupiedStorage' = [occupiedStorage EXCEPT ![inst[t]] = Len(loc[t].blobs)]
  /\ created' = [created EXCEPT ![inst[t]] = TRUE]
  /\ Settle(t, Resolved("create"))
  /\ UNCHANGED <<store, now, compress, meta, localData, state, inst, ops>>
  /\ UNCHANGED histVars
  /\ UNCHANGED pending

(***************************************************************************)
(* getCurrentUsed(live), isUpToDate()                                      *)
(***************************************************************************)
getCurrentUsedCall(t, i, live) ==
  /\ CanCall(t)
  /\ created[i]
  /\ ops < MaxOps
  /\ ops' = ops + 1
  /\ inst' = [inst EXCEPT ![t] = i]
  /\ IF live
     THEN /\ pc' = [pc EXCEPT ![t] = "read"]
          /\ loc' = [loc EXCEPT ![t] = [LocInit EXCEPT !.op = "getCurrentUsed",
                                                       !.cont = "used_done"]]
          /\ UNCHANGED result
     ELSE Settle(t, [Resolved("getCurrentUsed") EXCEPT
                       !.size = occupiedStorage[i]])
  /\ UNCHANGED <<store, now, created, compress, meta, localData,
                 occupiedStorage, state>>
  /\ UNCHANGED histVars
  /\ UNCHANGED pending

getCurrentUsedDone(t) ==
  /\ pc[t] = "used_done"
  /\ occupiedStorage' = [occupiedStorage EXCEPT ![inst[t]] = Len(loc[t].blobs)]
  /\ Settle(t, [Resolved("getCurrentUsed") EXCEPT !.size = Len(loc[t].blobs)])
  /\ UNCHANGED <<store, now, created, compress, meta, localData, state, inst,
                 ops>>
  /\ UNCHANGED histVars
  /\ UNCHANGED pending

\* liveMeta.lastUpdated === this.meta.lastUpdated
UpToDate(i) ==
  StorageGet(store, keyMeta).meta.lastUpdated = meta[i].lastUpdated

isUpToDate(t, i) ==
  /\ CanCall(t)
  /\ created[i]
  /\ ops < MaxOps
  /\ ops' = ops + 1
  /\ inst' = [inst EXCEPT ![t] = i]
  /\ Settle(t, [Resolved("isUpToDate") EXCEPT !.flag = UpToDate(i)])
  /\ UNCHANGED <<store, now, created, compress, meta, localData,
                 occupiedStorage, state>>
  /\ UNCHANGED histVars
  /\ UNCHANGED pending

(***************************************************************************)
(* get(items)                                                              *)
(***************************************************************************)
\* no key is listed when no key is asked for
argKeysToArrayNoKeys(i, arg) ==
  [iterable |-> arg.kind \in {"none", "string"},
   keys |-> IF arg.kind = "string" THEN arg.keys ELSE {}]

\* the key list, and whether "for (const key of keys)" can iterate it:
\* for an array or an object, ks = keys?.keys is not an iterable
argKeysToArray(i, arg) ==
  IF arg.kind = "none"
  THEN [iterable |-> TRUE, keys |-> DOMAIN localData[i]]
  ELSE IF arg.kind = "string"
  THEN [iterable |-> TRUE, keys |-> arg.keys]
  ELSE [iterable |-> FALSE, keys |-> {}]

GetCall(t, i, arg) ==
  /\ CanCall(t)
  /\ created[i]
  /\ ops < MaxOps
  /\ ops' = ops + 1
  /\ inst' = [inst EXCEPT ![t] = i]
  /\ state' = [state EXCEPT ![i] = StorageStates.Downloading]
  /\ LET ks == argKeysToArray(i, arg) IN
       loc' = [loc EXCEPT ![t] = [LocInit EXCEPT !.op = "get", !.arg = arg,
                                                 !.keys = ks.keys,
                                                 !.iterable = ks.iterable]]
  /\ pc' = [pc EXCEPT ![t] = "get_check"]
  /\ UNCHANGED <<store, now, created, compress, meta, localData,
                 occupiedStorage, result>>
  /\ NoteOverlap(i)
  /\ UNCHANGED <<written, wrote, clean, lastSetBy, behind>>
  /\ UNCHANGED pending

GetValues(t, i, source) ==
  IF loc[t].iterable
  THEN Settle(t, [Resolved("get") EXCEPT !.value = Pick(source, loc[t].keys)])
  ELSE Settle(t, Rejected("get", "TypeError"))

\* if (await this.isUpToDate()) { answer from the cache } else { live data }
GetCheck(t) ==
  /\ pc[t] = "get_check"
  /\ LET i == inst[t] IN
       IF UpToDate(i)
       THEN /\ GetValues(t, i, localData[i])
            /\ state' = [state EXCEPT ![i] = StorageStates.Idle]
       ELSE /\ StartRead(t, "get_parse")
            /\ UNCHANGED <<state, result>>
  /\ UNCHANGED <<store, now, created, compress, meta, localData,
                 occupiedStorage, inst, ops>>
  /\ UNCHANGED histVars
  /\ UNCHANGED pending

\* decompress: base64 -> unzip -> toString
decompress(blob) ==
  LET r == Unzip(FromBase64(DecodeUtf8(blob)))
  IN [ok |-> r.ok, blob |-> EncodeUtf8(DecodeUtf8(r.bytes))]

\* the live branch also takes over the metadata record of the backend
GetParseResync(t) ==
  /\ pc[t] = "get_parse"
  /\ LET i == inst[t]
         zipped == meta[i].lastCompressState = LastCompressStates.Compressed
         un == IF zipped THEN decompress(loc[t].blobs)
               ELSE [ok |-> TRUE, blob |-> loc[t].blobs]
         json == JSONParse(DecodeUtf8(un.blob))
     IN /\ IF ~un.ok THEN Settle(t, Rejected("get", "ZippingError"))
           ELSE IF ~json.ok THEN Settle(t, Rejected("get", "SyntaxError"))
           ELSE GetValues(t, i, json.doc)
        /\ state' = [state EXCEPT ![i] = StorageStates.Idle]
        /\ meta' = [meta EXCEPT ![i] = StorageGet(store, keyMeta).meta]
  /\ UNCHANGED <<store, now, created, compress, localData, occupiedStorage,
                 inst, ops>>
  /\ UNCHANGED histVars
  /\ UNCHANGED pending

\* getAsBlob, JSON.parse, values[key] = json[key]
GetParse(t) ==
  /\ pc[t] = "get_parse"
  /\ LET i == inst[t]
         zipped == meta[i].lastCompressState = LastCompressStates.Compressed
         un == IF zipped THEN decompress(loc[t].blobs)
               ELSE [ok |-> TRUE, blob |-> loc[t].blobs]
         json == JSONParse(DecodeUtf8(un.blob))
     IN /\ IF ~un.ok THEN Settle(t, Rejected("get", "ZippingError"))
           ELSE IF ~json.ok THEN Settle(t, Rejected("get", "SyntaxError"))
           ELSE GetValues(t, i, json.doc)
        /\ state' = [state EXCEPT ![i] = StorageStates.Idle]
  /\ UNCHANGED <<store, now, created, compress, meta, localData,
                 occupiedStorage, inst, ops>>
  /\ UNCHANGED histVars
  /\ UNCHANGED pending

(***************************************************************************)
(* clear()                                                                 *)
(***************************************************************************)
\* one iteration of the loop of clear(): this.storage.remove(keyPrefix + i);
\* after the last one the counter and the cache are reset
RemoveSlot(t, i, index, cont) ==
  /\ store' = StorageRemove(store, SlotKey(index))
  /\ IF index + 1 < slotCount
     THEN /\ pc' = [pc EXCEPT ![t] = "clear"]
          /\ loc' = [loc EXCEPT ![t].index = index + 1, ![t].cont = cont,
                                ![t].op = IF cont = "set" THEN "set" ELSE "clear"]
          /\ UNCHANGED <<occupiedStorage, localData, result>>
     ELSE /\ occupiedStorage' = [occupiedStorage EXCEPT ![i] = 0]
          /\ localData' = [localData EXCEPT ![i] = EmptyDoc]
          /\ IF cont = "set"
             THEN /\ pc' = [pc EXCEPT ![t] = "set_hash_null"]
                  /\ loc' = [loc EXCEPT ![t].index = 0]
                  /\ UNCHANGED result
             ELSE Settle(t, Resolved("clear"))

ClearCall(t, i) ==
  /\ CanCall(t)
  /\ created[i]
  /\ ops < MaxOps
  /\ ops' = ops + 1
  /\ inst' = [inst EXCEPT ![t] = i]
  /\ RemoveSlot(t, i, 0, "clear")
  /\ UNCHANGED <<now, created, compress, meta, state>>
  /\ wrote' = [wrote EXCEPT ![i] = TRUE]
  /\ clean' = [clean EXCEPT ![i] = FALSE]
  /\ UNCHANGED <<written, lastSetBy, behind, overlap>>
  /\ UNCHANGED pending

ClearSlot(t) ==
  /\ pc[t] = "clear"
  /\ RemoveSlot(t, inst[t], loc[t].index, loc[t].cont)
  /\ UNCHANGED <<now, created, compress, meta, state, inst, ops>>
  /\ UNCHANGED histVars
  /\ UNCHANGED pending

(***************************************************************************)
(* set(items)                                                              *)
(***************************************************************************)
SetCall(t, i, items) ==
  /\ CanCall(t)
  /\ created[i]
  /\ ops < MaxOps
  /\ ops' = ops + 1
  /\ inst' = [inst EXCEPT ![t] = i]
  /\ state' = [state EXCEPT ![i] = StorageStates.Uploading]
  /\ loc' = [loc EXCEPT ![t] = [LocInit EXCEPT !.op = "set", !.items = items]]
  /\ pc' = [pc EXCEPT ![t] = "set_prepare"]
  /\ UNCHANGED <<store, now, created, compress, meta, localData,
                 occupiedStorage, result>>
  /\ NoteOverlap(i)
  /\ wrote' = [wrote EXCEPT ![i] = TRUE]
  /\ lastSetBy' = "none"
  /\ behind' = {}
  /\ UNCHANGED <<written, clean>>
  /\ UNCHANGED pending

\* newJson = { ...oldData, ...items }; new Blob([JSON.stringify(newJson)])
Precompressed(st, items) ==
  EncodeUtf8(JSONStringify(Spread(SpreadBlob(connectedBlobs(st)), items)))

\* compress: new Blob([buffer.toString("base64")])
compressBlob(blob) == EncodeUtf8(ToBase64(Deflate(blob)))

\* the slots are cleared before the capacity is checked
CheckCapacityAfterClear(t, i, data, preHash) ==
  IF Over(Len(data)) > 0
  THEN /\ state' = [state EXCEPT ![i] = StorageStates.Idle]
       /\ Settle(t, [Rejected("set", "TooLargeDataError") EXCEPT
                       !.exceeded = Over(Len(data))])
       /\ clean' = [clean EXCEPT ![i] = FALSE]
       /\ localData' = [localData EXCEPT ![i] = EmptyDoc]
       /\ occupiedStorage' = [occupiedStorage EXCEPT ![i] = 0]
  ELSE /\ pc' = [pc EXCEPT ![t] = "clear"]
       /\ loc' = [loc EXCEPT ![t].data = data, ![t].preHash = preHash,
                             ![t].index = 0, ![t].cont = "set"]
       /\ UNCHANGED <<state, result, clean, localData, occupiedStorage>>

\* the capacity check and what follows it
CheckCapacity(t, i, data, preHash) ==
  IF Over(Len(data)) > 0
  THEN /\ state' = [state EXCEPT ![i] = StorageStates.Idle]
       /\ Settle(t, [Rejected("set", "TooLargeDataError") EXCEPT
                       !.exceeded = Over(Len(data))])
       /\ clean' = [clean EXCEPT ![i] = FALSE]
       /\ UNCHANGED <<localData, occupiedStorage>>
  ELSE /\ pc' = [pc EXCEPT ![t] = "clear"]
       /\ loc' = [loc EXCEPT ![t].data = data, ![t].preHash = preHash,
                             ![t].index = 0, ![t].cont = "set"]
       /\ UNCHANGED <<state, result, clean, localData, occupiedStorage>>

\* lines 282-301: serialize, hash, compress (which records Compressed in the
\* metadata without waiting), check the capacity
SetPrepare(t) ==
  /\ pc[t] = "set_prepare"
  /\ LET i == inst[t]
         precompressedData == Precompressed(store, loc[t].items)
         preCompressHash == calculateHash(DecodeUtf8(precompressedData))
     IN IF compress[i]
        THEN /\ setMeta(i, [meta[i] EXCEPT !.lastCompressState =
                                             LastCompressStates.Compressed])
             /\ CheckCapacity(t, i, compressBlob(precompressedData),
                              preCompressHash)
        ELSE /\ CheckCapacity(t, i, precompressedData, preCompressHash)
             /\ UNCHANGED <<store, meta>>
  /\ UNCHANGED <<now, created, compress, inst, ops>>
  /\ UNCHANGED <<written, wrote, lastSetBy, behind, overlap>>
  /\ UNCHANGED pending

\* deflate calls back with an error: Failed is recorded, the promise rejects
SetCompressFail(t) ==
  /\ pc[t] = "set_prepare"
  /\ compress[inst[t]]
  /\ ops < MaxOps
  /\ ops' = ops + 1
  /\ setMeta(inst[t], [meta[inst[t]] EXCEPT !.lastCompressState =
                                              LastCompressStates.Failed])
  /\ state' = [state EXCEPT ![inst[t]] = StorageStates.Idle]
  /\ Settle(t, Rejected("set", "ZippingError"))
  /\ UNCHANGED <<now, created, compress, localData, occupiedStorage, inst>>
  /\ clean' = [clean EXCEPT ![inst[t]] = FALSE]
  /\ UNCHANGED <<written, wrote, lastSetBy, behind, overlap>>
  /\ UNCHANGED pending

\* await this.setHash(null)
SetHashNull(t) ==
  /\ pc[t] = "set_hash_null"
  /\ setMeta(inst[t], [meta[inst[t]] EXCEPT !.hash = NullHash])
  /\ pc' = [pc EXCEPT ![t] = "set_blob"]
  /\ UNCHANGED <<now, created, compress, localData, occupiedStorage, state,
                 inst, loc, result, ops>>
  /\ UNCHANGED histVars
  /\ UNCHANGED pending

\* setBlob: objValue[keyPrefix + index] = await value.text()
setBlob(st, index, value) ==
  StorageSet(st, SlotKey(index), TextEntry(DecodeUtf8(value)))

\* the split loop starts over after the last chunk instead of ending
SetBlobRestarts(t) ==
  /\ pc[t] = "set_blob"
  /\ LET i == inst[t]
         index == loc[t].index
         data == loc[t].data
         end == Min((index + 1) * slotSize, Len(data))
         part == BlobSlice(data, index * slotSize, end)
         last == end = Len(data) \/ index + 1 >= slotCount
     IN /\ store' = setBlob(store, index, part)
        /\ occupiedStorage' = [occupiedStorage EXCEPT ![i] =
                                 IF last THEN 0 ELSE @ + Len(part)]
        /\ pc' = pc
        /\ loc' = [loc EXCEPT ![t].index = IF last THEN 0 ELSE index + 1]
  /\ UNCHANGED <<now, created, compress, meta, localData, state, inst, result,
                 ops>>
  /\ UNCHANGED histVars
  /\ UNCHANGED pending

\* one iteration of the split loop
SetBlob(t) ==
  /\ pc[t] = "set_blob"
  /\ LET i == inst[t]
         index == loc[t].index
         data == loc[t].data
         end == Min((index + 1) * slotSize, Len(data))
         part == BlobSlice(data, index * slotSize, end)
     IN /\ store' = setBlob(store, index, part)
        /\ occupiedStorage' = [occupiedStorage EXCEPT ![i] = @ + Len(part)]
        /\ IF end = Len(data) \/ index + 1 >= slotCount
           THEN pc' = [pc EXCEPT ![t] = "set_prehash"]
           ELSE pc' = pc
        /\ loc' = [loc EXCEPT ![t].index = index + 1]
  /\ UNCHANGED <<now, created, compress, meta, localData, state, inst, result,
                 ops>>
  /\ UNCHANGED histVars
  /\ UNCHANGED pending

\* setPreCompressHash(preCompressHash) / setPreCompressHash(null)
SetPreCompressHash(t) ==
  /\ pc[t] = "set_prehash"
  /\ LET i == inst[t] IN
       IF compress[i]
       THEN /\ setMeta(i, [meta[i] EXCEPT !.hashPreCompress = loc[t].preHash])
            /\ StartRead(t, "set_hash")
       ELSE /\ setMeta(i, [meta[i] EXCEPT !.hashPreCompress = NullHash])
            /\ pc' = [pc EXCEPT ![t] = "set_lastcompress"]
            /\ UNCHANGED loc
  /\ UNCHANGED <<now, created, compress, localData, occupiedStorage, state,
                 inst, result, ops>>
  /\ UNCHANGED histVars
  /\ UNCHANGED pending

\* setLastCompress(LastCompressStates.Uncomporessed)
SetLastCompress(t) ==
  /\ pc[t] = "set_lastcompress"
  /\ setMeta(inst[t], [meta[inst[t]] EXCEPT !.lastCompressState =
                                              LastCompressStates.Uncomporessed])
  /\ StartRead(t, "set_hash")
  /\ UNCHANGED <<now, created, compress, localData, occupiedStorage, state,
                 inst, result, ops>>
  /\ UNCHANGED histVars
  /\ UNCHANGED pending

\* setHash(this.calculateHash(await blob.text()))
SetHash(t) ==
  /\ pc[t] = "set_hash"
  /\ setMeta(inst[t], [meta[inst[t]] EXCEPT
                         !.hash = calculateHash(DecodeUtf8(loc[t].blobs))])
  /\ pc' = [pc EXCEPT ![t] = "set_updated"]
  /\ UNCHANGED <<now, created, compress, localData, occupiedStorage, state,
                 inst, loc, result, ops>>
  /\ UNCHANGED histVars
  /\ UNCHANGED pending

\* Date.now(): the clock has not moved since the last call, or has moved on
DateNow == {d \in {now, now + 1} : d <= MaxClock}

\* setLastUpdated(), then the cache is updated and the state is Idle; the
\* outcome keeps the items that were written, for the properties
SetLastUpdated(t) ==
  /\ pc[t] = "set_updated"
  /\ \E updated \in DateNow :
       /\ now' = updated
       /\ setMeta(inst[t], [meta[inst[t]] EXCEPT !.lastUpdated = updated])
  /\ localData' = [localData EXCEPT ![inst[t]] = Spread(@, loc[t].items)]
  /\ state' = [state EXCEPT ![inst[t]] = StorageStates.Idle]
  /\ Settle(t, [Resolved("set") EXCEPT !.value = loc[t].items])
  /\ UNCHANGED <<created, compress, occupiedStorage, inst, ops>>
  /\ written' = [written EXCEPT ![inst[t]] = Spread(@, loc[t].items)]
  /\ lastSetBy' = inst[t]
  /\ behind' = {j \in Instances \ {inst[t]} : created[j]}
  /\ UNCHANGED <<wrote, clean, overlap>>
  /\ UNCHANGED pending

(***************************************************************************)
(* Environment: a backend call that rejects                                *)
(***************************************************************************)
AwaitedBackendCall == {"init_meta", "init_set", "read", "get_check",
                       "set_hash_null", "set_blob", "set_prehash",
                       "set_lastcompress", "set_hash", "set_updated"}

\* the in-memory record after "meta.<field> = value", which precedes the
\* storage.set that rejects
MetaBeforeCall(t, updated) ==
  LET m == meta[inst[t]] IN
  CASE pc[t] = "set_hash_null" -> [m EXCEPT !.hash = NullHash]
    [] pc[t] = "set_prehash" ->
         [m EXCEPT !.hashPreCompress =
            IF compress[inst[t]] THEN loc[t].preHash ELSE NullHash]
    [] pc[t] = "set_lastcompress" ->
         [m EXCEPT !.lastCompressState = LastCompressStates.Uncomporessed]
    [] pc[t] = "set_hash" ->
         [m EXCEPT !.hash = calculateHash(DecodeUtf8(loc[t].blobs))]
    [] pc[t] = "set_updated" -> [m EXCEPT !.lastUpdated = updated]
    [] OTHER -> m

\* the catch block rethrows without going back to Idle
BackendFailKeepsState(t) ==
  /\ pc[t] \in AwaitedBackendCall
  /\ ops < MaxOps
  /\ ops' = ops + 1
  /\ \E updated \in (IF pc[t] = "set_updated" THEN DateNow ELSE {now}) :
       /\ now' = updated
       /\ meta' = [meta EXCEPT ![inst[t]] = MetaBeforeCall(t, updated)]
  /\ Settle(t, Rejected(loc[t].op, "BackendError"))
  /\ UNCHANGED <<store, created, compress, localData, occupiedStorage, inst,
                 state>>
  /\ clean' = [clean EXCEPT ![inst[t]] = IF loc[t].op = "set" THEN FALSE ELSE @]
  /\ UNCHANGED <<written, wrote, lastSetBy, behind, overlap>>
  /\ UNCHANGED pending

\* the awaited storage call of the current step rejects; set and get catch
\* the error, go back to Idle and rethrow
BackendFail(t) ==
  /\ pc[t] \in AwaitedBackendCall
  /\ ops < MaxOps
  /\ ops' = ops + 1
  /\ \E updated \in (IF pc[t] = "set_updated" THEN DateNow ELSE {now}) :
       /\ now' = updated
       /\ meta' = [meta EXCEPT ![inst[t]] = MetaBeforeCall(t, updated)]
  /\ state' = [state EXCEPT ![inst[t]] =
                 IF loc[t].op \in {"set", "get"} THEN StorageStates.Idle ELSE @]
  /\ Settle(t, Rejected(loc[t].op, "BackendError"))
  /\ UNCHANGED <<store, created, compress, localData, occupiedStorage, inst>>
  /\ clean' = [clean EXCEPT ![inst[t]] = IF loc[t].op = "set" THEN FALSE ELSE @]
  /\ UNCHANGED <<written, wrote, lastSetBy, behind, overlap>>
  /\ UNCHANGED pending

(***************************************************************************)
(* Specification                                                           *)
(***************************************************************************)
Next ==
  \/ \E t \in Callers, i \in Instances : CreateCall(t, i)
  \/ \E t \in Threads : initStorageMeta(t)
  \/ \E t \in Threads : initSetMeta(t)
  \/ \E t \in Threads : ReadSlot(t)
  \/ \E t \in Threads : CreateDone(t)
  \/ \E t \in Callers, i \in Instances, live \in BOOLEAN :
       getCurrentUsedCall(t, i, live)
  \/ \E t \in Threads : getCurrentUsedDone(t)
  \/ \E t \in Callers, i \in Instances : isUpToDate(t, i)
  \/ \E t \in Callers, i \in Instances, arg \in GetArgs : GetCall(t, i, arg)
  \/ \E t \in Threads : GetCheck(t)
  \/ \E t \in Threads : GetParse(t)
  \/ \E t \in Callers, i \in Instances : ClearCall(t, i)
  \/ \E t \in Threads : ClearSlot(t)
  \/ \E t \in Callers, i \in Instances, items \in SetInputs :
       SetCall(t, i, items)
  \/ \E t \in Threads : SetPrepare(t)
  \/ \E t \in Threads : SetCompressFail(t)
  \/ \E t \in Threads : SetHashNull(t)
  \/ \E t \in Threads : SetBlob(t)
  \/ \E t \in Threads : SetPreCompressHash(t)
  \/ \E t \in Threads : SetLastCompress(t)
  \/ \E t \in Threads : SetHash(t)
  \/ \E t \in Threads : SetLastUpdated(t)
  \/ \E t \in Threads : BackendFail(t)

Spec == Init /\ [][Next]_vars

(***************************************************************************)
(* Properties                                                              *)
(***************************************************************************)
\* no other instance has called set or clear
SoleWriter(i) == \A j \in Instances \ {i} : ~wrote[j]

\* steps of thread t
SetCalled(t) == pc[t] = "idle" /\ pc'[t] = "set_prepare"
CapacityReject(t) ==
  /\ pc[t] = "set_prepare"
  /\ pc'[t] = "idle"
  /\ result'[t].status = "TooLargeDataError"
SetResolves(t) ==
  pc[t] = "set_updated" /\ pc'[t] = "idle" /\ result'[t].status = "ok"
GetResolves(t) ==
  pc[t] \in {"get_check", "get_parse"} /\ pc'[t] = "idle"
    /\ result'[t].status = "ok"

\* the payload the set of thread t is about to store
PayloadSize(t) ==
  LET plain == Precompressed(store, loc[t].items)
  IN Len(IF compress[inst[t]] THEN compressBlob(plain) ELSE plain)

UpToDateNext(i) ==
  StorageGet(store', keyMeta).meta.lastUpdated = meta'[i].lastUpdated

\* C1: on an instance that is the only writer and whose writes were all
\* sets that resolved, get() with no keys resolves with the merge of all the
\* items written, later values winning.
C1_RoundTripMerge ==
  [][\A t \in Threads :
       (GetResolves(t) /\ loc[t].arg = NoArg
          /\ SoleWriter(inst[t]) /\ clean[inst[t]])
       => result'[t].value = written[inst[t]]]_vars

\* C2: the capacity check lets a payload of at most slotSize * slotCount
\* bytes through and rejects a larger one with TooLargeDataError whose
\* overage is the payload size minus slotSize * slotCount; a set resolves
\* only with a payload that fits.
C2_CapacityBoundary ==
  [][\A t \in Threads :
       /\ (pc[t] = "set_prepare" /\ pc'[t] # "set_prepare")
          => \/ result'[t].status \in {"ZippingError", "BackendError"}
             \/ /\ PayloadSize(t) <= slotSize * slotCount
                /\ pc'[t] = "clear"
             \/ /\ PayloadSize(t) > slotSize * slotCount
                /\ pc'[t] = "idle"
                /\ result'[t].status = "TooLargeDataError"
                /\ result'[t].exceeded = PayloadSize(t) - slotSize * slotCount
       /\ SetResolves(t) => Len(loc[t].data) <= slotSize * slotCount]_vars

\* a set was rejected for one byte too many after a set filled the capacity
C2_Witness ==
  \E t \in Threads :
    /\ result[t].status = "TooLargeDataError"
    /\ result[t].exceeded = 1
    /\ occupiedStorage[inst[t]] = slotSize * slotCount

\* C3: a set rejected with the Capacity error leaves every slot key and
\* every field of the metadata record, in the backend and in memory, as
\* they were.
C3_CapacityRejectUntouched ==
  [][\A t \in Threads :
       CapacityReject(t)
       => /\ \A k \in ReservedKeys : store'[k] = store[k]
          /\ meta'[inst[t]] = meta[inst[t]]]_vars

\* C4: calling set and having it rejected with the Capacity error leaves
\* getHash(), the occupied counter, the local cache and the concatenated
\* slot contents as they were.
C4_CapacityRejectFrame ==
  [][\A t \in Threads :
       (SetCalled(t) \/ CapacityReject(t))
       => /\ meta'[inst'[t]].hash = meta[inst'[t]].hash
          /\ occupiedStorage'[inst'[t]] = occupiedStorage[inst'[t]]
          /\ localData'[inst'[t]] = localData[inst'[t]]
          /\ connectedBlobs(store') = connectedBlobs(store)]_vars

\* a set was rejected on an instance that holds a document
C4_Witness ==
  \E t \in Threads :
    /\ result[t].status = "TooLargeDataError"
    /\ meta[inst[t]].hash # NullHash
    /\ localData[inst[t]] # EmptyDoc
    /\ occupiedStorage[inst[t]] > 0
    /\ connectedBlobs(store) # <<>>

\* C5: before any write every instance is up to date; once a set of A has
\* resolved and no set has been called since, A is up to date and every
\* other instance that existed then is not.
C5_Staleness ==
  /\ (\A i \in Instances : ~wrote[i])
       => \A i \in Instances : created[i] => UpToDate(i)
  /\ lastSetBy # "none"
       => /\ UpToDate(lastSetBy)
          /\ \A j \in behind : ~UpToDate(j)

\* C6: when a get of an instance that is stale with respect to a resolved
\* set of another instance resolves, the instance is up to date.
C6_ResyncByReading ==
  [][\A t \in Threads :
       (GetResolves(t) /\ inst[t] \in behind /\ ~UpToDate(inst[t]))
       => UpToDateNext(inst[t])]_vars

\* the sets and gets of instance i in flight
OpsInFlight(i) ==
  {t \in Threads : InFlight(t, i) /\ loc[t].op \in {"set", "get"}}

\* C7: on an instance whose operations do not overlap, the state is
\* Uploading while a set is in flight, Downloading while a get is in flight
\* and Idle otherwise, whether the last operation resolved or rejected.
C7_StateProtocol ==
  \A i \in Instances :
    ~overlap[i]
    => /\ OpsInFlight(i) = {} => state[i] = StorageStates.Idle
       /\ \A t \in OpsInFlight(i) :
            state[i] = IF loc[t].op = "set" THEN StorageStates.Uploading
                       ELSE StorageStates.Downloading

\* a set was rejected by a failing backend call and the instance is Idle
C7_Witness ==
  \E t \in Threads :
    /\ pc[t] = "idle"
    /\ result[t].op = "set"
    /\ result[t].status = "BackendError"
    /\ state[inst[t]] = StorageStates.Idle
    /\ ~overlap[inst[t]]

\* C8: no step adds, removes or changes a backend key other than
\* "__storage_meta" and "__storage_stack_" + i for i in [0, slotCount).
C8_Isolation ==
  [][\A k \in BackendKeys \ ReservedKeys : store'[k] = store[k]]_vars

\* a set and then a clear have resolved and the other keys are as they were
C8_Witness ==
  \E t \in Threads :
    /\ result[t].op = "clear"
    /\ result[t].status = "ok"
    /\ written[inst[t]] # EmptyDoc
    /\ store["dummy1"] = TextEntry(ForeignValue)
    /\ store[SlotKey(slotCount)] = AbsentEntry

\* C9: when a set of the only writer resolves, the metadata in memory and in
\* the backend has hash = digest of the concatenated slots = digest of the
\* payload that was split, lastUpdated = the time of the write, and
\* hashPreCompress = digest of the serialized document with Compressed when
\* compression is enabled, absent with Uncompressed when it is disabled.
C9_MetadataDescribesVersion ==
  [][\A t \in Threads :
       (SetResolves(t) /\ SoleWriter(inst[t]))
       => LET i == inst[t]
              m == meta'[i]
          IN /\ store'[keyMeta] = MetaEntry(m)
             /\ m.hash = calculateHash(DecodeUtf8(connectedBlobs(store')))
             /\ m.hash = calculateHash(DecodeUtf8(loc[t].data))
             /\ m.lastUpdated = now'
             /\ IF compress[i]
                THEN /\ m.hashPreCompress =
                          calculateHash(JSONStringify(loc[t].items))
                     /\ m.lastCompressState = LastCompressStates.Compressed
                ELSE /\ m.hashPreCompress = NullHash
                     /\ m.lastCompressState =
                          LastCompressStates.Uncomporessed]_vars

\* C10: while a set of the only writer is in flight (all its earlier writes
\* being sets that resolved), the hash in the backend metadata is absent or
\* is the digest of the concatenation of the slots now in the backend.
C10_CrashConsistency ==
  \A t \in Threads :
    (InFlight(t, inst[t]) /\ loc[t].op = "set"
       /\ SoleWriter(inst[t]) /\ clean[inst[t]])
    => LET e == StorageGet(store, keyMeta)
       IN e.kind = "meta"
          => \/ e.meta.hash = NullHash
             \/ e.meta.hash = calculateHash(DecodeUtf8(connectedBlobs(store)))

\* the bytes slot index holds, and whether the key is present
SlotBytes(st, index) == getBlob(st, index)
SlotPresent(st, index) == StorageGet(st, SlotKey(index)).kind = "text"

\* C11: when a set of the only writer resolves with a payload of L bytes,
\* slot i holds the bytes [i * slotSize, min((i + 1) * slotSize, L)) of the
\* payload when i * slotSize < L and is absent otherwise, no slot holds more
\* than slotSize bytes, and the slots concatenated in index order are the
\* payload.
C11_ChunkLayout ==
  [][\A t \in Threads :
       (SetResolves(t) /\ SoleWriter(inst[t]))
       => LET data == loc[t].data
              L == Len(data)
          IN /\ \A index \in Slots :
                  IF index * slotSize < L
                  THEN /\ SlotPresent(store', index)
                       /\ SlotBytes(store', index) =
                            BlobSlice(data, index * slotSize,
                                      Min((index + 1) * slotSize, L))
                  ELSE ~SlotPresent(store', index)
             /\ \A index \in Slots : Len(SlotBytes(store', index)) <= slotSize
             /\ connectedBlobs(store') = data]_vars

\* the call before the one in flight on thread t was a set of the same
\* instance that resolved
AfterOwnSet(t) ==
  /\ result[t].op = "set"
  /\ result[t].status = "ok"
  /\ lastSetBy = inst[t]

\* a get settles without a backend call of its own having been rejected
GetSettles(t) ==
  /\ pc[t] \in {"get_check", "get_parse"}
  /\ pc'[t] = "idle"
  /\ result'[t].status # "BackendError"

\* C12: on an instance with compression enabled, a set that resolves leaves
\* lastCompressState Compressed and both hashes non-null, and a get() that
\* follows it resolves with exactly the items of that set.
C12_CompressionTransparency ==
  [][\A t \in Threads :
       /\ (SetResolves(t) /\ compress[inst[t]])
          => /\ meta'[inst[t]].lastCompressState =
                  LastCompressStates.Compressed
             /\ meta'[inst[t]].hash # NullHash
             /\ meta'[inst[t]].hashPreCompress # NullHash
       /\ (GetSettles(t) /\ loc[t].arg = NoArg /\ compress[inst[t]]
             /\ AfterOwnSet(t))
          => /\ result'[t].status = "ok"
             /\ result'[t].value = result[t].value
             /\ meta'[inst[t]].lastCompressState =
                  LastCompressStates.Compressed
             /\ meta'[inst[t]].hash # NullHash
             /\ meta'[inst[t]].hashPreCompress # NullHash]_vars

\* a get() has returned the document a compressing instance holds after a
\* set of its own
C12_Witness ==
  \E t \in Threads :
    /\ pc[t] = "idle"
    /\ result[t].op = "get"
    /\ result[t].status = "ok"
    /\ result[t].value = Doc1("a", StrXE)
    /\ compress[inst[t]]
    /\ lastSetBy = inst[t]
    /\ meta[inst[t]].lastCompressState = LastCompressStates.Compressed

\* C13: create() leaves a metadata record it finds in the backend as it is
\* and otherwise writes the record of the constructor; when it resolves, the
\* in-memory metadata is the record of the backend, the occupied counter is
\* the number of bytes in the slots, the instance is up to date and Idle.
C13_Construction ==
  [][\A t \in Threads :
       /\ (loc[t].op = "create" /\ StorageGet(store, keyMeta).kind = "meta")
          => store' = store
       /\ (pc[t] = "init_set" /\ pc'[t] # "idle")
          => store' = StorageSet(store, keyMeta, MetaEntry(InitialMeta))
       /\ (pc[t] = "create_done" /\ pc'[t] = "idle"
             /\ result'[t].status = "ok")
          => LET i == inst[t] IN
             /\ created'[i]
             /\ StorageGet(store', keyMeta) = MetaEntry(meta'[i])
             /\ occupiedStorage'[i] = Len(connectedBlobs(store'))
             /\ UpToDateNext(i)
             /\ state'[i] = StorageStates.Idle]_vars

\* an instance was created on a backend that holds a document and sees the
\* hash its writer recorded
C13_Witness ==
  \E t \in Threads :
    /\ pc[t] = "idle"
    /\ result[t].op = "create"
    /\ result[t].status = "ok"
    /\ meta[inst[t]].hash # NullHash
    /\ occupiedStorage[inst[t]] > 0
    /\ \E j \in Instances \ {inst[t]} : lastSetBy = j

\* a set, get or clear of thread t completes: it resolves, or the set is
\* rejected by the capacity check
Completes(t) ==
  /\ pc[t] # "idle"
  /\ pc'[t] = "idle"
  /\ \/ result'[t].op \in {"set", "get", "clear"} /\ result'[t].status = "ok"
     \/ result'[t].status = "TooLargeDataError"

\* C14: when a set or a get of the only writer completes, all the writes it
\* called before having been sets that resolved, the occupied counter is the
\* number of bytes in slots 0..slotCount-1 and is at most
\* slotSize * slotCount; after a set that resolved it is the size of the
\* payload that was stored.
C14_CapacityAccounting ==
  [][\A t \in Threads :
       (Completes(t) /\ SoleWriter(inst[t]) /\ clean[inst[t]])
       => LET i == inst[t] IN
          /\ occupiedStorage'[i] = Len(connectedBlobs(store'))
          /\ occupiedStorage'[i] <= slotSize * slotCount
          /\ SetResolves(t) => occupiedStorage'[i] = Len(loc[t].data)]_vars

\* the document a reader reconstructs from the backend: the slots
\* concatenated, decompressed when the metadata record says Compressed, and
\* parsed; no slot content is the empty document
StoredDocument(st) ==
  LET blob == connectedBlobs(st)
      e == StorageGet(st, keyMeta)
      zipped == e.kind = "meta"
                  /\ e.meta.lastCompressState = LastCompressStates.Compressed
      un == IF zipped THEN decompress(blob) ELSE [ok |-> TRUE, blob |-> blob]
  IN IF blob = <<>> THEN [ok |-> TRUE, doc |-> EmptyDoc]
     ELSE IF ~un.ok THEN ParseFail
     ELSE JSONParse(DecodeUtf8(un.blob))

\* the document of the payload a set is about to store
PayloadDocument(t) ==
  LET plain == Precompressed(store, loc[t].items)
  IN JSONParse(DecodeUtf8(plain))

\* C17: a set of the only writer, all its earlier writes being sets that
\* resolved, prepares as payload the document stored before the call with
\* items merged over it (old keys kept with their values, keys of items with
\* the new values), and when it resolves the stored document has the keys
\* of all the items written so far.
C17_SetMergesStored ==
  [][\A t \in Threads :
       (SoleWriter(inst[t]) /\ clean[inst[t]])
       => /\ (pc[t] = "set_prepare" /\ pc'[t] = "clear")
             => /\ StoredDocument(store).ok
                /\ PayloadDocument(t).ok
                /\ PayloadDocument(t).doc =
                     Spread(StoredDocument(store).doc, loc[t].items)
          /\ SetResolves(t)
             => /\ StoredDocument(store').ok
                /\ DOMAIN StoredDocument(store').doc =
                     DOMAIN written'[inst[t]]]_vars

\* thread t runs get(k) on an instance that was created on the untouched
\* backend and has not written, directly after a set of another instance
\* that resolved with a value for k
StaleReader(t) ==
  /\ loc[t].op = "get"
  /\ loc[t].arg.kind = "string"
  /\ inst[t] \in behind
  /\ ~wrote[inst[t]]
  /\ meta[inst[t]] = InitialMeta
  /\ result[t].op = "set"
  /\ result[t].status = "ok"
  /\ loc[t].keys \subseteq DOMAIN result[t].value

\* C18: with the same compression setting on both instances, such a get
\* finds its instance not up to date, reads the slots and resolves with the
\* value the other instance wrote for k.
C18_StaleRead ==
  [][\A t \in Threads :
       /\ (StaleReader(t) /\ pc[t] = "get_check" /\ pc'[t] # "idle")
          => pc'[t] = "read"
       /\ (StaleReader(t) /\ GetSettles(t))
          => /\ pc[t] = "get_parse"
             /\ result'[t].status = "ok"
             /\ result'[t].value = Pick(result[t].value, loc[t].keys)]_vars

\* C19: no step of a get, from its call to its resolution or rejection,
\* changes the local cache, the in-memory metadata, the occupied counter or
\* a backend key; when the get settles the state is Idle.
C19_GetReadOnly ==
  [][\A t \in Threads :
       (loc[t].op = "get" \/ loc'[t].op = "get")
       => /\ store' = store
          /\ meta' = meta
          /\ localData' = localData
          /\ occupiedStorage' = occupiedStorage
          /\ (pc[t] # "idle" /\ pc'[t] = "idle")
             => state'[inst[t]] = StorageStates.Idle]_vars

\* a get that read the slots was rejected at the parse and its instance is
\* Idle
C19_Witness ==
  \E t \in Threads :
    /\ pc[t] = "idle"
    /\ result[t].op = "get"
    /\ result[t].status = "SyntaxError"
    /\ state[inst[t]] = StorageStates.Idle
    /\ connectedBlobs(store) # <<>>

(***************************************************************************)
(* A backend whose remove() takes effect at some time after the call.      *)
(* clear() drops the promises of its remove calls, so nothing in the       *)
(* engine waits for a removal to take effect or learns that it was         *)
(* rejected.                                                               *)
(***************************************************************************)
AsyncInstance == "A"
AsyncInputs == {Doc1("b", Num10), Doc2(Num1, Num1000)}

\* one iteration of the loop of clear(): the removal is issued
IssueRemove(t, i, index, cont) ==
  /\ pending' = pending \cup {SlotKey(index)}
  /\ IF index + 1 < slotCount
     THEN /\ pc' = [pc EXCEPT ![t] = "clear"]
          /\ loc' = [loc EXCEPT ![t].index = index + 1, ![t].cont = cont,
                                ![t].op = IF cont = "set" THEN "set" ELSE "clear"]
          /\ UNCHANGED <<occupiedStorage, localData, result>>
     ELSE /\ occupiedStorage' = [occupiedStorage EXCEPT ![i] = 0]
          /\ localData' = [localData EXCEPT ![i] = EmptyDoc]
          /\ IF cont = "set"
             THEN /\ pc' = [pc EXCEPT ![t] = "set_hash_null"]
                  /\ loc' = [loc EXCEPT ![t].index = 0]
                  /\ UNCHANGED result
             ELSE Settle(t, Resolved("clear"))

ClearCallAsync(t, i) ==
  /\ CanCall(t)
  /\ created[i]
  /\ ops < MaxOps
  /\ ops' = ops + 1
  /\ inst' = [inst EXCEPT ![t] = i]
  /\ IssueRemove(t, i, 0, "clear")
  /\ UNCHANGED <<store, now, created, compress, meta, state>>
  /\ wrote' = [wrote EXCEPT ![i] = TRUE]
  /\ clean' = [clean EXCEPT ![i] = FALSE]
  /\ UNCHANGED <<written, lastSetBy, behind, overlap>>

ClearSlotAsync(t) ==
  /\ pc[t] = "clear"
  /\ IssueRemove(t, inst[t], loc[t].index, loc[t].cont)
  /\ UNCHANGED <<store, now, created, compress, meta, state, inst, ops>>
  /\ UNCHANGED histVars

\* the backend carries out a removal that was issued
RemoveApplies(k) ==
  /\ k \in pending
  /\ store' = StorageRemove(store, k)
  /\ pending' = pending \ {k}
  /\ UNCHANGED <<now, instVars, threadVars, ops, histVars>>

\* the backend rejects a removal that was issued; nobody holds its promise
RemoveRejects(k) ==
  /\ k \in pending
  /\ ops < MaxOps
  /\ ops' = ops + 1
  /\ pending' = pending \ {k}
  /\ UNCHANGED <<store, now, instVars, threadVars, histVars>>

NextAsync ==
  \/ \E t \in Callers : CreateCall(t, AsyncInstance)
  \/ \E t \in Threads : initStorageMeta(t)
  \/ \E t \in Threads : initSetMeta(t)
  \/ \E t \in Threads : ReadSlot(t)
  \/ \E t \in Threads : CreateDone(t)
  \/ \E t \in Callers : ClearCallAsync(t, AsyncInstance)
  \/ \E t \in Threads : ClearSlotAsync(t)
  \/ \E t \in Callers, items \in AsyncInputs : SetCall(t, AsyncInstance, items)
  \/ \E t \in Threads : SetPrepare(t)
  \/ \E t \in Threads : SetHashNull(t)
  \/ \E t \in Threads : SetBlob(t)
  \/ \E t \in Threads : SetPreCompressHash(t)
  \/ \E t \in Threads : SetLastCompress(t)
  \/ \E t \in Threads : SetHash(t)
  \/ \E t \in Threads : SetLastUpdated(t)
  \/ \E k \in SlotKeys : RemoveApplies(k)
  \/ \E k \in SlotKeys : RemoveRejects(k)

SpecAsync == Init /\ [][NextAsync]_vars

\* C15: no step of a clear() changes the metadata record, in memory or in
\* the backend, or the state; when the clear() resolves, every slot key is
\* absent from the backend, the occupied counter is 0 and the cache is
\* empty.
C15_ClearFrame ==
  [][\A t \in Threads :
       (loc[t].op = "clear" \/ loc'[t].op = "clear"
          \/ (pc'[t] = "idle" /\ result'[t].op = "clear"
                /\ result'[t] # result[t]))
       => /\ meta' = meta
          /\ StorageGet(store', keyMeta) = StorageGet(store, keyMeta)
          /\ state' = state
          /\ (pc'[t] = "idle" /\ result'[t].status = "ok")
             => /\ \A index \in Slots : ~SlotPresent(store', index)
                /\ occupiedStorage'[inst'[t]] = 0
                /\ localData'[inst'[t]] = EmptyDoc]_vars

\* C20: within a set, no removal issued by its clearing step is still to
\* take effect when a slot is written, and no chunk the set has written
\* disappears while the set writes its slots.
C20_ClearBeforeWrite ==
  [][\A t \in Threads :
       (loc[t].op = "set" /\ pc[t] = "set_blob")
       => /\ store' # store => pending = {}
          /\ \A index \in Slots :
               (index < loc[t].index /\ SlotPresent(store, index))
               => SlotPresent(store', index)]_vars

(***************************************************************************)
(* Two callers: a set of instance A and a set of instance B in flight on   *)
(* the same backend, their backend calls interleaved in any order.         *)
(***************************************************************************)
RaceInstance(t) == IF t = 1 THEN "A" ELSE "B"
\* A writes a document of four chunks, B one of two chunks
RaceInputs(t) == IF t = 1 THEN {Doc2(Num1, Num1000)} ELSE {Doc1("b", Num10)}

NextRace ==
  \/ \E t \in Callers, i \in Instances : CreateCall(t, i)
  \/ \E t \in Threads : initStorageMeta(t)
  \/ \E t \in Threads : initSetMeta(t)
  \/ \E t \in Threads : ReadSlot(t)
  \/ \E t \in Threads : CreateDone(t)
  \/ \E t \in Threads : \E items \in RaceInputs(t) :
       SetCall(t, RaceInstance(t), items)
  \/ \E t \in Threads : SetPrepare(t)
  \/ \E t \in Threads : ClearSlot(t)
  \/ \E t \in Threads : SetHashNull(t)
  \/ \E t \in Threads : SetBlob(t)
  \/ \E t \in Threads : SetPreCompressHash(t)
  \/ \E t \in Threads : SetLastCompress(t)
  \/ \E t \in Threads : SetHash(t)
  \/ \E t \in Threads : SetLastUpdated(t)

SpecRace == Init /\ [][NextRace]_vars

\* the set of thread t is in flight and has written its last slot
SlotPhaseDone(t) ==
  /\ loc[t].op = "set"
  /\ \/ pc[t] \in {"set_prehash", "set_lastcompress", "set_hash",
                   "set_updated"}
     \/ pc[t] = "read" /\ loc[t].cont = "set_hash"

\* C16: when a set writes its last slot while the set of the other instance
\* is in flight and has written its last slot already, so that both go on
\* to resolve without writing a slot again, the slots concatenated are the
\* payload of the set whose slot writing ended last.
C16_RacingWriters ==
  [][\A t \in Threads :
       (pc[t] = "set_blob" /\ pc'[t] = "set_prehash"
          /\ \E u \in Threads \ {t} : SlotPhaseDone(u))
       => connectedBlobs(store') = loc[t].data]_vars

(***************************************************************************)
(* Failure of a backend call during set                                    *)
(***************************************************************************)
\* the awaited backend calls of set that follow the un-awaited clear() and
\* end with the storage.set of the new hash
InFailureWindow(t) ==
  /\ loc[t].op = "set"
  /\ \/ pc[t] \in {"set_hash_null", "set_blob", "set_prehash",
                   "set_lastcompress", "set_hash"}
     \/ pc[t] = "read" /\ loc[t].cont = "set_hash"

\* the call thread t awaits rejects
BackendRejects(t) ==
  /\ pc[t] \in AwaitedBackendCall
  /\ pc'[t] = "idle"
  /\ result'[t].status = "BackendError"

\* C21: on an instance that is the only writer, when a backend call of set
\* rejects after clear() has run and before the new hash is stored, the set
\* rejects with that error, the state is Idle, the hash is absent in the
\* metadata record of the backend and in the in-memory metadata, and
\* lastUpdated is in both what it was before.
C21_FailureWindow ==
  [][\A t \in Threads :
       (InFailureWindow(t) /\ BackendRejects(t) /\ SoleWriter(inst[t]))
       => LET i == inst[t] IN
            /\ result'[t].op = "set"
            /\ state'[i] = StorageStates.Idle
            /\ meta'[i].hash = NullHash
            /\ StorageGet(store', keyMeta).meta.hash = NullHash
            /\ meta'[i].lastUpdated = meta[i].lastUpdated
            /\ StorageGet(store', keyMeta).meta.lastUpdated
                 = StorageGet(store, keyMeta).meta.lastUpdated]_vars

(***************************************************************************)
(* Failure of the compression during set                                   *)
(***************************************************************************)
\* deflate reports an error to the set of thread t
CompressFails(t) ==
  /\ pc[t] = "set_prepare"
  /\ pc'[t] = "idle"
  /\ result'[t].status = "ZippingError"

SlotsOf(st) == [index \in Slots |-> StorageGet(st, SlotKey(index))]

\* C22: when the compression of a set fails, the set rejects with a
\* ZippingError, the state is Idle, lastCompressState is Failed in the
\* in-memory metadata and in the record of the backend, no slot is removed
\* or written, and hash and lastUpdated are, in memory and in the record of
\* the backend, what they were before.
C22_CompressionFailure ==
  [][\A t \in Threads :
       CompressFails(t)
       => LET i == inst[t]
              before == StorageGet(store, keyMeta).meta
              after == StorageGet(store', keyMeta).meta
          IN /\ result'[t].op = "set"
             /\ state'[i] = StorageStates.Idle
             /\ meta'[i].lastCompressState = LastCompressStates.Failed
             /\ after.lastCompressState = LastCompressStates.Failed
             /\ SlotsOf(store') = SlotsOf(store)
             /\ meta'[i].hash = meta[i].hash
             /\ meta'[i].lastUpdated = meta[i].lastUpdated
             /\ after.hash = before.hash
             /\ after.lastUpdated = before.lastUpdated]_vars

(***************************************************************************)
(* The keys get answers for                                                *)
(***************************************************************************)
\* a get settles on the cache branch or, the stored text being readable, on
\* the live branch
GetAnswers(t) ==
  /\ loc[t].op = "get"
  /\ pc[t] \in {"get_check", "get_parse"}
  /\ pc'[t] = "idle"
  /\ result'[t].status \notin {"BackendError", "SyntaxError", "ZippingError"}

\* the keys the caller asked for: those passed, or those of the local cache
RequestedKeys(t) ==
  IF loc[t].arg.kind = "none" THEN DOMAIN localData[inst[t]]
  ELSE loc[t].arg.keys

\* C23: a get called with one string key, with a list of string keys or
\* with no keys resolves, on the cache branch and on the live branch, with
\* a mapping whose keys are exactly the requested keys (the keys of the
\* local cache when none is passed).
C23_KeyResolution ==
  [][\A t \in Threads :
       GetAnswers(t)
       => /\ result'[t].status = "ok"
          /\ DOMAIN result'[t].value = RequestedKeys(t)]_vars

(***************************************************************************)
(* Progress: every awaited call settles, so every operation settles        *)
(***************************************************************************)
\* the step of thread t that follows the call it awaits, once that settles
\* (SetPrepare, SetHash and GetParse apart)
Steps(t) ==
  \/ initStorageMeta(t)
  \/ initSetMeta(t)
  \/ ReadSlot(t)
  \/ CreateDone(t)
  \/ getCurrentUsedDone(t)
  \/ GetCheck(t)
  \/ ClearSlot(t)
  \/ SetHashNull(t)
  \/ SetBlob(t)
  \/ SetPreCompressHash(t)
  \/ SetLastCompress(t)
  \/ SetLastUpdated(t)

\* a promise that settles resumes the code awaiting it. The weak fairness
\* of SetPrepare, SetHash and GetParse is written out, each being enabled
\* exactly when the thread stands at its position.
Resumes(t) ==
  /\ WF_vars(Steps(t))
  /\ []<>(pc[t] # "set_prepare") \/ []<><<SetPrepare(t)>>_vars
  /\ []<>(pc[t] # "set_hash") \/ []<><<SetHash(t)>>_vars
  /\ []<>(pc[t] # "get_parse") \/ []<><<GetParse(t)>>_vars

SpecLive == Spec /\ \A t \in Threads : Resumes(t)

SetOrGetInFlight(t) == pc[t] # "idle" /\ loc[t].op \in {"set", "get"}

\* thread t has settled and its instance is Idle
SettledIdle(t) == pc[t] = "idle" /\ state[inst[t]] = StorageStates.Idle

\* an awaited backend call of thread t rejects (only then is a failure
\* counted while the thread stands at such a call)
AwaitedCallRejects(t) ==
  pc[t] \in AwaitedBackendCall /\ ops' = ops + 1

\* C24: every set and every get that is in flight eventually settles with
\* the state of its instance Idle, and a step whose backend call rejects is
\* not run again: the operation settles at once with that rejection.
C24_Liveness ==
  /\ \A t \in Threads : SetOrGetInFlight(t) ~> SettledIdle(t)
  /\ [][\A t \in Threads :
          AwaitedCallRejects(t)
          => pc'[t] = "idle" /\ result'[t].status = "BackendError"]_vars

\* a set was rejected by the backend and its instance is Idle again
C24_Witness ==
  \E t \in Threads :
    /\ pc[t] = "idle"
    /\ result[t].op = "set"
    /\ result[t].status = "BackendError"
    /\ state[inst[t]] = StorageStates.Idle

(***************************************************************************)
(* The cache and the stored document                                       *)
(***************************************************************************)
\* a get resolves on the cache branch: isUpToDate() was true
CacheAnswer(t) ==
  /\ loc[t].op = "get"
  /\ pc[t] = "get_check"
  /\ pc'[t] = "idle"
  /\ result'[t].status = "ok"

\* the instance has written nothing itself, and every write made so far on
\* the backend was a set that resolved
ReaderOfOthers(i) == ~wrote[i] /\ \A j \in Instances : clean[j]

\* C25: when a get resolves from the local cache, the instance being up to
\* date, the value returned for every requested key is the value of that
\* key in the document stored in the slots (undefined when the document
\* lacks the key); stated for an instance that has written nothing itself,
\* every write so far being a set that resolved, the stored document being
\* readable.
C25_CacheCoherence ==
  [][\A t \in Threads :
       (CacheAnswer(t) /\ ReaderOfOthers(inst[t]) /\ StoredDocument(store).ok)
       => result'[t].value
            = Pick(StoredDocument(store).doc, DOMAIN result'[t].value)]_vars

(***************************************************************************)
(* The metadata record of the backend                                      *)
(***************************************************************************)
\* lastUpdated of the record stored under keyMeta (NullTime when absent)
StoredLastUpdated(st) == StorageGet(st, keyMeta).meta.lastUpdated

\* C26: the lastUpdated of the metadata record of the backend never changes
\* to an older value nor back to absent, whichever instance writes the
\* record.
C26_NoMetadataRegression ==
  [][StoredLastUpdated(store') >= StoredLastUpdated(store)]_vars

(***************************************************************************)
(* Two callers on one instance: a second operation is called while an      *)
(* earlier one is in flight.                                               *)
(***************************************************************************)
OverlapInstance == "A"
OverlapInputs == {Doc1("b", Num10)}
OverlapArgs == {StringArg("b")}

NextOverlap ==
  \/ \E t \in Callers : CreateCall(t, OverlapInstance)
  \/ \E t \in Threads : initStorageMeta(t)
  \/ \E t \in Threads : initSetMeta(t)
  \/ \E t \in Threads : ReadSlot(t)
  \/ \E t \in Threads : CreateDone(t)
  \/ \E t \in Threads, arg \in OverlapArgs : GetCall(t, OverlapInstance, arg)
  \/ \E t \in Threads : GetCheck(t)
  \/ \E t \in Threads : GetParse(t)
  \/ \E t \in Threads : ClearCall(t, OverlapInstance)
  \/ \E t \in Threads : ClearSlot(t)
  \/ \E t \in Threads, items \in OverlapInputs :
       SetCall(t, OverlapInstance, items)
  \/ \E t \in Threads : SetPrepare(t)
  \/ \E t \in Threads : SetHashNull(t)
  \/ \E t \in Threads : SetBlob(t)
  \/ \E t \in Threads : SetPreCompressHash(t)
  \/ \E t \in Threads : SetLastCompress(t)
  \/ \E t \in Threads : SetHash(t)
  \/ \E t \in Threads : SetLastUpdated(t)
  \/ \E t \in Threads : BackendFail(t)

SpecOverlap == Init /\ [][NextOverlap]_vars

\* C27: whatever operations are called on an instance while another is in
\* flight, the state of the instance is Idle only when none of its sets and
\* gets is in flight.
C27_BusySignal ==
  \A i \in Instances :
    state[i] = StorageStates.Idle => OpsInFlight(i) = {}

(***************************************************************************)
(* The stored hash after two racing sets                                   *)
(***************************************************************************)
\* the sets of both instances were in flight together and have resolved
BothSetsDone ==
  \A t \in Threads :
    /\ pc[t] = "idle"
    /\ result[t].op = "set"
    /\ result[t].status = "ok"

\* C28: once the racing sets of the two instances have both resolved, the
\* hash of the metadata record of the backend is the digest of the text of
\* the slots concatenated.
C28_HashAfterRace ==
  BothSetsDone
  => StorageGet(store, keyMeta).meta.hash
       = calculateHash(DecodeUtf8(connectedBlobs(store)))

====
